---------------------------- MODULE Spec2Model ----------------------------
(***************************************************************************)
(* Model of the citronella GraphQL server (second server file of           *)
(* src/unnamed/part_000, lines 177-461) and of the part of the React       *)
(* client that keeps the credential (src/frontend/src/App.tsx).            *)
(*                                                                         *)
(* Time is counted in hours.  Strings that the code only compares are      *)
(* TLA+ strings; an optional value (undefined / null) is a sequence of     *)
(* length 0 or 1.                                                          *)
(***************************************************************************)
EXTENDS Integers, Sequences, FiniteSets, TLC

VARIABLES
    seeded,     \* number of posts the seeding forEach has processed
    comments,   \* the comments array
    commentId,  \* the module-level commentId counter
    now,        \* Date.now(), in hours since process start
    stored,     \* the client's localStorage 'token' (option)
    req,        \* the last request received by the server
    res,        \* the response sent to it
    prev,       \* the comments array as it was when that request arrived
    listing,    \* what the last posts query resolved, and with how many calls
    pending,    \* addComment requests received and not yet executed
    succeeded,  \* number of those requests that were executed successfully
    field,      \* the last author field the executor completed on its own
    kept        \* a copy of an issued credential held outside localStorage

vars == <<seeded, comments, commentId, now, stored, req, res, prev,
          listing, pending, succeeded, field, kept>>

\* the variables that only the operations of SpecInFlight, SpecField and
\* SpecSession write
others == <<pending, succeeded, field, kept>>

---------------------------------------------------------------------------
(* Bounds of the model *)

\* comments seeded per post: SeedBase .. SeedBase + SeedSpread - 1 (source: 15, 6)
SeedBase == 1
SeedSpread == 1
\* successful addComment calls explored
MaxAdds == 1
\* clock ticks explored
MaxTicks == 1
\* addComment requests admitted by SpecInFlight
MaxInFlight == 2

---------------------------------------------------------------------------
(* Program constants *)

ExpiresInHours == 24
SECRET == "your-secret-key"

users ==
    << [id |-> 1, email |-> "john@example.com", password |-> "password123", name |-> "John Doe"],
       [id |-> 2, email |-> "Jane@example.com", password |-> "password456", name |-> "Jane Smith"],
       [id |-> 3, email |-> "admin@company.com", password |-> "admin123", name |-> "Admin User"] >>

\* the first two rows of the posts table (the source has eight)
posts ==
    << [id |-> 1, title |-> "Getting Started with GraphQL", authorId |-> 1],
       [id |-> 2, title |-> "Understanding React Hooks", authorId |-> 2] >>

\* the first row of the commentTexts table (the source has fifteen)
commentTexts == << "Great post!" >>

---------------------------------------------------------------------------
(* Helpers standing for JavaScript built-ins *)

Range(s) == { s[i] : i \in DOMAIN s }

\* Array.prototype.find: the first element of s among those at the indices
\* hits (where the predicate holds), or undefined
Find(s, hits) ==
    IF hits = {} THEN << >>
    ELSE << s[CHOOSE i \in hits : \A j \in hits : i <= j] >>

\* String.prototype.toLowerCase, on the strings used as emails
ToLowerCase(str) ==
    CASE str = "John@Example.com" -> "john@example.com"
      [] str = "Jane@example.com" -> "jane@example.com"
      [] OTHER -> str

\* String.prototype.trim, on the strings used as comment texts
Trim(str) == IF str = " " THEN "" ELSE str

\* the view handing out the whole row of the users table
View_WholeRow(u) == u

\* the sanitized user view { id, email, name }
View(u) == [id |-> u.id, email |-> u.email, name |-> u.name]

---------------------------------------------------------------------------
(* Token codec: jsonwebtoken's sign and verify *)

\* A credential string is a record [kind, userId, iat, exp, sig]: kind "jwt"
\* is a well-formed token, "junk" any other non-empty string, "empty" the
\* empty string.
EmptyString == [kind |-> "empty", userId |-> 0, iat |-> 0, exp |-> 0, sig |-> ""]
Junk == [kind |-> "junk", userId |-> 0, iat |-> 0, exp |-> 0, sig |-> ""]

\* jwt.sign({ userId }, key, { expiresIn: '24h' }) at time t
JwtSign(userId, key, t) ==
    [kind |-> "jwt", userId |-> userId, iat |-> t, exp |-> t + ExpiresInHours, sig |-> key]

\* jwt.verify(token, key) at time t: throws on a malformed token, on a
\* signature made with another key, and once the clock has reached exp.
JwtVerify(token, key, t) ==
    IF token.kind # "jwt" THEN [threw |-> TRUE, why |-> "jwt malformed", userId |-> 0]
    ELSE IF token.sig # key THEN [threw |-> TRUE, why |-> "invalid signature", userId |-> 0]
    ELSE IF t >= token.exp THEN [threw |-> TRUE, why |-> "jwt expired", userId |-> 0]
    ELSE [threw |-> FALSE, why |-> "", userId |-> token.userId]

---------------------------------------------------------------------------
(* Request context builder *)

\* An Authorization header value: scheme \o cred.  The header itself is an
\* option: << >> when the request carries none.
Bearer(cred) == [scheme |-> "Bearer ", cred |-> cred]
Raw(cred) == [scheme |-> "", cred |-> cred]

\* header.replace('Bearer ', ''): drops the first 'Bearer ' of the string
StripBearer(h) ==
    IF h.scheme = "Bearer " \/ h.scheme = "" THEN h.cred ELSE Junk

Anonymous == [aborted |-> FALSE, user |-> << >>]

\* ContextTry reading the payload without verifying it (jwt.decode)
ContextTry_DecodeOnly(token, t) ==
    IF token.kind # "jwt" THEN [threw |-> TRUE, user |-> << >>]
    ELSE LET user == Find(users, { i \in DOMAIN users : users[i].id = token.userId })
         IN  IF user # << >>
             THEN [threw |-> FALSE, user |-> << View(user[1]) >>]
             ELSE [threw |-> FALSE, user |-> << >>]

\* the body of the try block: [threw, user]
ContextTry(token, t) ==
    LET decoded == JwtVerify(token, SECRET, t)
    IN  IF decoded.threw THEN [threw |-> TRUE, user |-> << >>]
        ELSE LET user == Find(users, { i \in DOMAIN users : users[i].id = decoded.userId })
             IN  IF user # << >>
                 THEN [threw |-> FALSE, user |-> << View(user[1]) >>]
                 ELSE [threw |-> FALSE, user |-> << >>]

\* a context builder with a session register: it accepts only the
\* credential that was issued last and that no logout has dropped since
Context_LatestSessionOnly(header, t) ==
    IF header = << >> THEN Anonymous
    ELSE LET token == StripBearer(header[1])
         IN  IF token.kind = "empty" THEN Anonymous
             ELSE IF << token >> # stored THEN Anonymous
             ELSE LET r == ContextTry(token, t)
                  IN  IF r.threw THEN Anonymous
                      ELSE [aborted |-> FALSE, user |-> r.user]

\* Context without the try / catch around the verification
Context_NoCatch(header, t) ==
    IF header = << >> THEN Anonymous
    ELSE LET token == StripBearer(header[1])
         IN  IF token.kind = "empty" THEN Anonymous
             ELSE LET r == ContextTry(token, t)
                  IN  [aborted |-> r.threw, user |-> r.user]

\* context({ req }) at time t.  aborted: an exception left the function.
Context(header, t) ==
    IF header = << >> THEN Anonymous
    ELSE LET token == StripBearer(header[1])
         IN  IF token.kind = "empty" THEN Anonymous
             ELSE LET r == ContextTry(token, t)
                  IN  IF r.threw THEN Anonymous
                      ELSE [aborted |-> FALSE, user |-> r.user]

---------------------------------------------------------------------------
(* Field resolvers *)

\* resolvers.Post.author
PostAuthor(post) ==
    LET user == Find(users, { i \in DOMAIN users : users[i].id = post.authorId })
    IN  IF user = << >> THEN << >> ELSE << View(user[1]) >>

\* resolvers.Post.comments: comments.filter(c => c.postId === post.id)
PostComments(post, cs) == SelectSeq(cs, LAMBDA c : c.postId = post.id)

\* commentCount without the filter
PostCommentCount_NoFilter(post, cs) == Len(cs)

\* resolvers.Post.commentCount: an independent filter, then .length
PostCommentCount(post, cs) ==
    Cardinality({ i \in DOMAIN cs : cs[i].postId = post.id })

\* resolvers.Comment.author
CommentAuthor(comment) ==
    LET user == Find(users, { i \in DOMAIN users : users[i].id = comment.userId })
    IN  IF user = << >> THEN << >> ELSE << View(user[1]) >>

---------------------------------------------------------------------------
(* Resolvers of the Mutation type *)

\* the lookup comparing emails without regard to case
FindUserByCredentials_IgnoreCase(email, password) ==
    Find(users, { i \in DOMAIN users :
                    /\ ToLowerCase(users[i].email) = ToLowerCase(email)
                    /\ users[i].password = password })

\* users.find(u => u.email === email && u.password === password)
FindUserByCredentials(email, password) ==
    Find(users, { i \in DOMAIN users :
                    users[i].email = email /\ users[i].password = password })

\* a response: the error thrown (or ""), and the fields of the payload
Response(error, user, token, comment) ==
    [error |-> error, user |-> user, token |-> token, comment |-> comment]

NoResponse == Response("", << >>, << >>, << >>)

\* login signing the payload under the wrong claim name
LoginResolver_WrongClaim(email, password, t) ==
    LET user == FindUserByCredentials(email, password)
    IN  IF user = << >>
        THEN Response("Invalid email or password", << >>, << >>, << >>)
        ELSE Response("", << View(user[1]) >>, << JwtSign(0, SECRET, t) >>, << >>)

\* login telling an unknown email from a wrong password
LoginResolver_TellsCause(email, password, t) ==
    LET user == FindUserByCredentials(email, password)
    IN  IF user # << >>
        THEN Response("", << View(user[1]) >>,
                      << JwtSign(user[1].id, SECRET, t) >>, << >>)
        ELSE IF Find(users, { i \in DOMAIN users : users[i].email = email }) = << >>
        THEN Response("User not found", << >>, << >>, << >>)
        ELSE Response("Invalid email or password", << >>, << >>, << >>)

\* resolvers.Mutation.login at time t
LoginResolver(email, password, t) ==
    LET user == FindUserByCredentials(email, password)
    IN  IF user = << >>
        THEN Response("Invalid email or password", << >>, << >>, << >>)
        ELSE Response("", << View(user[1]) >>,
                      << JwtSign(user[1].id, SECRET, t) >>, << >>)

\* the comment addComment builds
NewComment(id, text, postId, userId, t) ==
    [id |-> id, text |-> text, postId |-> postId, userId |-> userId, createdAt |-> t]

\* addComment validating the text before the context
AddCommentResolver_TextFirst(context, postId, text, cs, t) ==
    IF text = ""
    THEN Response("Comment text is required", << >>, << >>, << >>)
    ELSE IF context.user = << >>
    THEN Response("Error adding comment", << >>, << >>, << >>)
    ELSE Response("", << >>, << >>,
                  << NewComment(Len(cs) + 1, text, postId, context.user[1].id, t) >>)

\* addComment storing the postId as the author
AddCommentResolver_WrongAuthor(context, postId, text, cs, t) ==
    IF context.user = << >>
    THEN Response("Error adding comment", << >>, << >>, << >>)
    ELSE IF text = ""
    THEN Response("Comment text is required", << >>, << >>, << >>)
    ELSE Response("", << >>, << >>,
                  << NewComment(Len(cs) + 1, text, postId, postId, t) >>)

\* addComment trimming the text before it validates and stores it
AddCommentResolver_Trim(context, postId, text, cs, t) ==
    IF context.user = << >>
    THEN Response("Error adding comment", << >>, << >>, << >>)
    ELSE IF Trim(text) = ""
    THEN Response("Comment text is required", << >>, << >>, << >>)
    ELSE Response("", << >>, << >>,
                  << NewComment(Len(cs) + 1, Trim(text), postId, context.user[1].id, t) >>)

\* addComment numbering the comment comments.length
AddCommentResolver_IdLength(context, postId, text, cs, t) ==
    IF context.user = << >>
    THEN Response("Error adding comment", << >>, << >>, << >>)
    ELSE IF text = ""
    THEN Response("Comment text is required", << >>, << >>, << >>)
    ELSE Response("", << >>, << >>,
                  << NewComment(Len(cs), text, postId, context.user[1].id, t) >>)

\* addComment numbering the comment with the seeding counter, which the
\* resolver never advances
AddCommentResolver_CounterId(context, postId, text, cs, t) ==
    IF context.user = << >>
    THEN Response("Error adding comment", << >>, << >>, << >>)
    ELSE IF text = ""
    THEN Response("Comment text is required", << >>, << >>, << >>)
    ELSE Response("", << >>, << >>,
                  << NewComment(commentId, text, postId, context.user[1].id, t) >>)

\* addComment refusing a postId that no post has
AddCommentResolver_ChecksPost(context, postId, text, cs, t) ==
    IF context.user = << >>
    THEN Response("Error adding comment", << >>, << >>, << >>)
    ELSE IF text = ""
    THEN Response("Comment text is required", << >>, << >>, << >>)
    ELSE IF Find(posts, { k \in DOMAIN posts : posts[k].id = postId }) = << >>
    THEN Response("Post not found", << >>, << >>, << >>)
    ELSE Response("", << >>, << >>,
                  << NewComment(Len(cs) + 1, text, postId, context.user[1].id, t) >>)

\* resolvers.Mutation.addComment at time t, over the comments array cs
AddCommentResolver(context, postId, text, cs, t) ==
    IF context.user = << >>
    THEN Response("Error adding comment", << >>, << >>, << >>)
    ELSE IF text = ""
    THEN Response("Comment text is required", << >>, << >>, << >>)
    ELSE Response("", << >>, << >>,
                  << NewComment(Len(cs) + 1, text, postId, context.user[1].id, t) >>)

\* resolvers.Query.me
MeResolver(context) ==
    IF context.user = << >> THEN << >> ELSE context.user

---------------------------------------------------------------------------
(* Requests and the state of the server *)

\* a request: the operation, its arguments, its Authorization header and
\* the context built for it
Request(op, header, email, password, postId, text) ==
    [op |-> op, header |-> header, context |-> Context(header, now),
     email |-> email, password |-> password, postId |-> postId, text |-> text]

NoRequest ==
    [op |-> "none", header |-> << >>, context |-> Anonymous,
     email |-> "", password |-> "", postId |-> 0, text |-> ""]

\* the server's answer: when the context function throws, the request ends
\* with an error and no resolver runs
Respond(context, r) ==
    IF context.aborted
    THEN Response("Context creation failed", << >>, << >>, << >>)
    ELSE r

\* no posts query resolved: the value of listing after any other request
NoListing == [posts |-> << >>, postComments |-> 0, commentAuthor |-> 0]

\* a posts resolver listing only the posts of the caller
PostsResolver_OwnPosts(context) ==
    IF context.user = << >> THEN << >>
    ELSE SelectSeq(posts, LAMBDA post : post.authorId = context.user[1].id)

\* resolvers.Query.posts
PostsResolver(context) == posts

\* one comment of the GetPosts selection: id, text, createdAt, author
ResolveComment(comment) ==
    [id |-> comment.id, text |-> comment.text, createdAt |-> comment.createdAt,
     author |-> CommentAuthor(comment)]

\* one post of the GetPosts selection: id, title, author, commentCount and
\* comments, each comment with its author
ResolvePost(post, cs) ==
    LET listed == PostComments(post, cs)
    IN  [id |-> post.id, title |-> post.title,
         author |-> PostAuthor(post),
         commentCount |-> PostCommentCount(post, cs),
         comments |-> [i \in DOMAIN listed |-> ResolveComment(listed[i])]]

\* the selection resolved through one batched read of the comments and one
\* batched read of their authors
RECURSIVE ResolveGetPosts_Batched(_, _)
ResolveGetPosts_Batched(ps, cs) ==
    IF ps = << >> THEN NoListing
    ELSE LET rest == ResolveGetPosts_Batched(Tail(ps), cs)
         IN  [posts |-> << ResolvePost(Head(ps), cs) >> \o rest.posts,
              postComments |-> 1,
              commentAuthor |-> 1]

\* the executor resolving the GetPosts selection over the posts ps: it calls
\* Post.comments for every post and Comment.author for every comment that
\* call returned; the two counters count those calls
RECURSIVE ResolveGetPosts(_, _)
ResolveGetPosts(ps, cs) ==
    IF ps = << >> THEN NoListing
    ELSE LET rest == ResolveGetPosts(Tail(ps), cs)
         IN  [posts |-> << ResolvePost(Head(ps), cs) >> \o rest.posts,
              postComments |-> 1 + rest.postComments,
              commentAuthor |-> Len(PostComments(Head(ps), cs)) + rest.commentAuthor]

\* no author field completed
NoField == [type |-> "", key |-> 0, value |-> << >>, error |-> ""]

\* the executor completing the value a resolver returned for the field
\* author of the type typeName, which the schema declares User! : undefined
\* is a field error, and the field carries no value
CompleteAuthor(typeName, key, value) ==
    IF value = << >>
    THEN [type |-> typeName, key |-> key, value |-> << >>,
          error |-> "Cannot return null for non-nullable field "
                        \o typeName \o ".author."]
    ELSE [type |-> typeName, key |-> key, value |-> value, error |-> ""]

\* the server answers requests once module initialisation (seeding) is over
Serving == seeded = Len(posts)

\* number of comments created by addComment so far
Added == Len(comments) - (commentId - 1)

---------------------------------------------------------------------------
(* Initial state and seeding *)

Init ==
    /\ seeded = 0
    /\ comments = << >>
    /\ commentId = 1
    /\ now = 0
    /\ stored = << >>
    /\ req = NoRequest
    /\ res = NoResponse
    /\ prev = << >>
    /\ listing = NoListing
    /\ pending = << >>
    /\ succeeded = 0
    /\ field = NoField
    /\ kept = << >>

\* createdAt is Date.now() - Math.random() * 30 days: the sampled values of
\* the subtracted age, in hours
SeedAges == {0}

\* the seeding loop numbering the comment by its own index i
SeedComment_LoopIndexAsId(post, i, id, userIndex, textIndex, age) ==
    [id |-> i,
     text |-> commentTexts[textIndex] \o " (Comment " \o ToString(i) \o ")",
     postId |-> post.id,
     userId |-> users[userIndex].id,
     createdAt |-> now - age]

\* the seeding loop storing the zero-based index of the user it drew
\* where the user's id belongs
SeedComment_IndexAsUserId(post, i, id, userIndex, textIndex, age) ==
    [id |-> id,
     text |-> commentTexts[textIndex] \o " (Comment " \o ToString(i) \o ")",
     postId |-> post.id,
     userId |-> userIndex - 1,
     createdAt |-> now - age]

\* the comment pushed by iteration i (counted from 1) of the seeding loop
SeedComment(post, i, id, userIndex, textIndex, age) ==
    [id |-> id,
     text |-> commentTexts[textIndex] \o " (Comment " \o ToString(i) \o ")",
     postId |-> post.id,
     userId |-> users[userIndex].id,
     createdAt |-> now - age]

\* one iteration of posts.forEach: the whole callback for the next post
SeedPost ==
    /\ seeded < Len(posts)
    /\ LET post == posts[seeded + 1]
       IN  \E numComments \in SeedBase .. (SeedBase + SeedSpread - 1) :
           \E pick \in [1 .. numComments ->
                          (DOMAIN users) \X (DOMAIN commentTexts) \X SeedAges] :
               /\ comments' = comments \o
                     [i \in 1 .. numComments |->
                        SeedComment(post, i, commentId + (i - 1),
                                    pick[i][1], pick[i][2], pick[i][3])]
               /\ commentId' = commentId + numComments
    /\ seeded' = seeded + 1
    /\ prev' = comments'
    /\ UNCHANGED <<now, stored, req, res, listing>>
    /\ UNCHANGED others

---------------------------------------------------------------------------
(* Inputs *)

\* login attempts: every user's own credentials, an email in another
\* casing, an unknown email, a wrong password, another user's password
Credentials ==
    { << users[i].email, users[i].password >> : i \in DOMAIN users }
    \cup { << "John@Example.com", "password123" >>,
           << "jane@example.com", "password456" >>,
           << "nobody@example.com", "password123" >>,
           << "john@example.com", "wrong" >>,
           << "john@example.com", "password456" >> }
\* postId arguments: the id of a post, and an id no post has
PostIds == { posts[1].id, 99 }
Texts == { "", " ", "Nice" }

\* a token for user 3 signed by somebody who does not know the secret
Forged(t) == JwtSign(3, "another-secret", t)

\* the header the React client sends (App.tsx authLink)
ClientHeader ==
    IF stored # << >> THEN << Bearer(stored[1]) >> ELSE << Raw(EmptyString) >>

\* the headers a request may carry in the current state
Headers ==
    { << >>, ClientHeader, << Bearer(Forged(now)) >>, << Bearer(Junk) >> }

---------------------------------------------------------------------------
(* Operations *)

\* a login request, and the client's onCompleted storing the token
Login(email, password) ==
    /\ Serving
    /\ req' = Request("login", ClientHeader, email, password, 0, "")
    /\ res' = Respond(req'.context, LoginResolver(email, password, now))
    /\ stored' = IF res'.error = "" THEN res'.token ELSE stored
    /\ prev' = comments
    /\ listing' = NoListing
    /\ UNCHANGED <<seeded, comments, commentId, now>>
    /\ UNCHANGED others

\* an addComment request whose comment is put in front (unshift)
AddComment_Unshift(header, postId, text) ==
    /\ Serving
    /\ LET context == Context(header, now)
           r == Respond(context,
                        AddCommentResolver(context, postId, text, comments, now))
       IN  /\ r.error = "" => Added < MaxAdds
           /\ req' = Request("addComment", header, "", "", postId, text)
           /\ res' = r
           /\ comments' = IF r.error = "" THEN << r.comment[1] >> \o comments
                          ELSE comments
    /\ prev' = comments
    /\ listing' = NoListing
    /\ UNCHANGED <<seeded, commentId, now, stored>>
    /\ UNCHANGED others

\* an addComment request
AddComment(header, postId, text) ==
    /\ Serving
    /\ LET context == Context(header, now)
           r == Respond(context,
                        AddCommentResolver(context, postId, text, comments, now))
       IN  /\ r.error = "" => Added < MaxAdds
           /\ req' = Request("addComment", header, "", "", postId, text)
           /\ res' = r
           /\ comments' = IF r.error = "" THEN Append(comments, r.comment[1])
                          ELSE comments
    /\ prev' = comments
    /\ listing' = NoListing
    /\ UNCHANGED <<seeded, commentId, now, stored>>
    /\ UNCHANGED others

\* a posts query with the GetPosts selection
QueryPosts(header) ==
    /\ Serving
    /\ req' = Request("posts", header, "", "", 0, "")
    /\ res' = Respond(req'.context, Response("", << >>, << >>, << >>))
    /\ prev' = comments
    /\ listing' = IF res'.error = ""
                  THEN ResolveGetPosts(PostsResolver(req'.context), comments)
                  ELSE NoListing
    /\ UNCHANGED <<seeded, comments, commentId, now, stored>>
    /\ UNCHANGED others

\* a me query
QueryMe(header) ==
    /\ Serving
    /\ req' = Request("me", header, "", "", 0, "")
    /\ res' = Respond(req'.context,
                       Response("", MeResolver(req'.context), << >>, << >>))
    /\ prev' = comments
    /\ listing' = NoListing
    /\ UNCHANGED <<seeded, comments, commentId, now, stored>>
    /\ UNCHANGED others

\* the client's handleLogout: the token leaves localStorage; the server is
\* not told (the refetch of resetStore is a later request of its own)
Logout ==
    /\ Serving
    /\ stored # << >>
    /\ stored' = << >>
    /\ UNCHANGED <<seeded, comments, commentId, now, req, res, prev, listing>>
    /\ UNCHANGED others

\* time passes; the response has left the server by then
TickHours == ExpiresInHours
Tick ==
    /\ Serving
    /\ now + TickHours <= MaxTicks * TickHours
    /\ now' = now + TickHours
    /\ req' = NoRequest
    /\ res' = NoResponse
    /\ prev' = comments
    /\ listing' = NoListing
    /\ UNCHANGED <<seeded, comments, commentId, stored>>
    /\ UNCHANGED others

Next ==
    \/ SeedPost
    \/ \E c \in Credentials : Login(c[1], c[2])
    \/ \E h \in Headers, p \in PostIds, t \in Texts : AddComment(h, p, t)
    \/ \E h \in Headers : QueryPosts(h)
    \/ \E h \in Headers : QueryMe(h)
    \/ Logout
    \/ Tick

Spec == Init /\ [][Next]_vars

---------------------------------------------------------------------------
(* Several requests in flight.  The server builds the context of a request  *)
(* when it arrives and runs its resolver in a later turn of the event loop; *)
(* the resolver is synchronous, so it runs to completion in one step.       *)

\* an addComment request arrives: its context is built and it waits
Receive(header, postId, text) ==
    /\ Serving
    /\ Len(pending) + succeeded < MaxInFlight
    /\ pending' = Append(pending, Request("addComment", header, "", "", postId, text))
    /\ UNCHANGED <<seeded, comments, commentId, now, stored, req, res, prev,
                   listing, succeeded, field, kept>>

\* the resolver of the i-th waiting request runs to completion
Execute(i) ==
    /\ i \in DOMAIN pending
    /\ LET r == pending[i]
           out == Respond(r.context,
                          AddCommentResolver(r.context, r.postId, r.text, comments, now))
       IN  /\ req' = r
           /\ res' = out
           /\ comments' = IF out.error = "" THEN Append(comments, out.comment[1])
                          ELSE comments
           /\ succeeded' = IF out.error = "" THEN succeeded + 1 ELSE succeeded
    /\ pending' = [j \in 1 .. (Len(pending) - 1) |->
                     IF j < i THEN pending[j] ELSE pending[j + 1]]
    /\ prev' = comments
    /\ listing' = NoListing
    /\ UNCHANGED <<seeded, commentId, now, stored, field, kept>>

NextInFlight ==
    \/ SeedPost
    \/ \E i \in DOMAIN users : Login(users[i].email, users[i].password)
    \/ Receive(ClientHeader, posts[1].id, "Nice")
    \/ \E i \in 1 .. MaxInFlight : Execute(i)

SpecInFlight == Init /\ [][NextInFlight]_vars

---------------------------------------------------------------------------
(* Properties *)

\* the credential of the last request's Authorization header
Cred == req.header[1].cred
HasHeader == req.op # "none" /\ req.header # << >>

\* why a credential fails verification at the current time
Expired(token) == token.kind = "jwt" /\ token.sig = SECRET /\ now >= token.exp
WrongSecret(token) == token.kind = "jwt" /\ token.sig # SECRET
Malformed(token) == token.kind = "junk"

Last(s) == s[Len(s)]
Failure(error) == Response(error, << >>, << >>, << >>)

\* C1: addComment with an anonymous context fails with 'Error adding
\* comment', whatever the postId and the text (the empty string included),
\* and leaves the comments array as it was.
C1_AnonymousAddCommentFails ==
    (req.op = "addComment" /\ req.context.user = << >>)
        => /\ res = Failure("Error adding comment")
           /\ comments = prev

C1_Witness ==
    /\ req.op = "addComment"
    /\ req.context.user = << >>
    /\ req.text = ""
    /\ req.postId = 99
    /\ res.error = "Error adding comment"

\* C2: addComment with an authenticated context and a non-empty text
\* succeeds and appends exactly one comment, whose userId is the id of the
\* context's user and whose postId and text are the arguments.
C2_AuthenticatedAddCommentAppendsOne ==
    (req.op = "addComment" /\ req.context.user # << >> /\ req.text # "")
        => /\ res.error = ""
           /\ Len(comments) = Len(prev) + 1
           /\ SubSeq(comments, 1, Len(prev)) = prev
           /\ Last(comments).userId = req.context.user[1].id
           /\ Last(comments).postId = req.postId
           /\ Last(comments).text = req.text
           /\ res.comment = << Last(comments) >>

C2_Witness ==
    /\ req.op = "addComment"
    /\ req.context.user # << >>
    /\ req.text = "Nice"
    /\ req.postId = 99
    /\ res.error = ""
    /\ Len(comments) = Len(prev) + 1

\* C3: in every state, for every post, Post.commentCount equals the length
\* of Post.comments.
C3_CommentCountIsLengthOfComments ==
    \A i \in DOMAIN posts :
        PostCommentCount(posts[i], comments) = Len(PostComments(posts[i], comments))

C3_Witness ==
    /\ Serving
    /\ Added >= 1
    /\ \E i \in DOMAIN posts :
          /\ PostCommentCount(posts[i], comments) >= 2
          /\ PostCommentCount(posts[i], comments) < Len(comments)

\* C4: a request whose Authorization header carries a credential past its
\* expiry, or signed with another secret, gets the anonymous context, and
\* building the context raises no error that ends the request.
C4_BadCredentialYieldsAnonymous ==
    (HasHeader /\ (Expired(Cred) \/ WrongSecret(Cred)))
        => /\ req.context.user = << >>
           /\ ~ req.context.aborted
           /\ res.error # "Context creation failed"

C4_Witness ==
    /\ HasHeader
    /\ req.op = "me"
    /\ Expired(Cred)
    /\ req.context = Anonymous
    /\ res = Response("", << >>, << >>, << >>)

\* C5: with a header whose credential fails verification (expired, wrong
\* secret or malformed), addComment fails and creates no comment whatever
\* its postId and text, while posts and me complete without error.
C5_TokenErrorsFailClosedForMutations ==
    (HasHeader /\ (Expired(Cred) \/ WrongSecret(Cred) \/ Malformed(Cred)))
        => /\ req.op = "addComment"
                => (res.error # "" /\ res.comment = << >> /\ comments = prev)
           /\ req.op \in {"posts", "me"} => res.error = ""

C5_Witness ==
    /\ HasHeader
    /\ req.op = "addComment"
    /\ Expired(Cred)
    /\ req.text = "Nice"
    /\ res.error # ""
    /\ comments = prev

\* C6: login with a seeded user's email in its stored casing and that user's
\* password succeeds and returns a credential and that user's view; a
\* context built from that credential before its expiry, 24 hours later,
\* carries the same user's id.
C6_LoginThenContextIsSameUser ==
    /\ \A i \in DOMAIN users :
          (req.op = "login" /\ req.email = users[i].email
                            /\ req.password = users[i].password)
              => /\ res.error = ""
                 /\ res.user = << View(users[i]) >>
                 /\ Len(res.token) = 1
                 /\ \A t \in { now, now + ExpiresInHours - 1 } :
                       LET context == Context(<< Bearer(res.token[1]) >>, t)
                       IN  /\ ~ context.aborted
                           /\ context.user # << >>
                           /\ context.user[1].id = users[i].id
    /\ (HasHeader /\ stored # << >> /\ req.header = << Bearer(stored[1]) >>
                  /\ req.op # "login" /\ now < stored[1].exp)
          => /\ req.context.user # << >>
             /\ req.context.user[1].id = stored[1].userId

C6_Witness ==
    /\ req.op = "me"
    /\ stored # << >>
    /\ req.header = << Bearer(stored[1]) >>
    /\ now < stored[1].exp
    /\ res.user = << View(users[2]) >>

\* C7: login with an email that differs from a stored user's email only in
\* letter case, with that user's password, fails with 'Invalid email or
\* password' and issues no credential.
C7_LoginIsCaseSensitive ==
    \A i \in DOMAIN users :
        (req.op = "login" /\ req.email # users[i].email
                          /\ ToLowerCase(req.email) = ToLowerCase(users[i].email)
                          /\ req.password = users[i].password)
            => /\ res.error = "Invalid email or password"
               /\ res.token = << >>
               /\ res.user = << >>

C7_Witness ==
    /\ req.op = "login"
    /\ req.email = "John@Example.com"
    /\ req.password = "password123"
    /\ res.error = "Invalid email or password"

\* the two causes of a failed login
UnknownEmail == \A i \in DOMAIN users : users[i].email # req.email
WrongPassword ==
    /\ \E i \in DOMAIN users : users[i].email = req.email
    /\ \A i \in DOMAIN users :
          users[i].email = req.email => users[i].password # req.password

\* C8: a failed login does not tell its cause: an email that matches no user
\* and a stored email with a wrong password get the same error and the same
\* absent payload.
C8_FailedLoginHidesCause ==
    (req.op = "login" /\ (UnknownEmail \/ WrongPassword))
        => res = Failure("Invalid email or password")

C8_Witness ==
    /\ req.op = "login"
    /\ WrongPassword
    /\ req.email = "john@example.com"
    /\ res = Failure("Invalid email or password")

\* C9: for an authenticated context, addComment with the empty text fails
\* with 'Comment text is required' and creates no comment; with a text of
\* whitespace only it succeeds and stores the text unchanged.
C9_EmptyTextFailsWhitespacePasses ==
    (req.op = "addComment" /\ req.context.user # << >>)
        => /\ req.text = ""
                => (res = Failure("Comment text is required") /\ comments = prev)
           /\ req.text = " "
                => /\ res.error = ""
                   /\ Len(comments) = Len(prev) + 1
                   /\ Last(comments).text = " "
                   /\ res.comment = << Last(comments) >>

C9_Witness ==
    /\ req.op = "addComment"
    /\ req.context.user # << >>
    /\ req.text = " "
    /\ res.error = ""
    /\ Last(comments).text = " "

\* C10: no two comments share an id, and every comment's id is greater than
\* the id of every comment created before it (the array is in creation
\* order), during seeding and after any addComment.
C10_CommentIdsUniqueAndIncreasing ==
    \A i, j \in DOMAIN comments :
        i < j => comments[i].id < comments[j].id

C10_Witness ==
    /\ Serving
    /\ Added >= 1
    /\ Len(comments) >= 3
    /\ Last(comments).id = Len(comments)

---------------------------------------------------------------------------
(* The author resolvers on their own.  The rows handed to them are those of *)
(* the store and, for each type, one row whose foreign key matches no user. *)

DanglingPost == [id |-> 99, title |-> "Orphan", authorId |-> 99]
DanglingComment == NewComment(99, "Nice", posts[1].id, 99, 0)

\* the executor resolves and completes Post.author of a row
ResolvePostAuthor(post) ==
    /\ Serving
    /\ field' = CompleteAuthor("Post", post.authorId, PostAuthor(post))
    /\ UNCHANGED <<seeded, comments, commentId, now, stored, req, res, prev,
                   listing, pending, succeeded, kept>>

\* the executor resolves and completes Comment.author of a row
ResolveCommentAuthor(comment) ==
    /\ Serving
    /\ field' = CompleteAuthor("Comment", comment.userId, CommentAuthor(comment))
    /\ UNCHANGED <<seeded, comments, commentId, now, stored, req, res, prev,
                   listing, pending, succeeded, kept>>

NextField ==
    \/ SeedPost
    \/ \E i \in DOMAIN users : Login(users[i].email, users[i].password)
    \/ \E p \in PostIds : AddComment(ClientHeader, p, "Nice")
    \/ \E post \in Range(posts) \cup {DanglingPost} : ResolvePostAuthor(post)
    \/ \E comment \in Range(comments) \cup {DanglingComment} :
          ResolveCommentAuthor(comment)

SpecField == Init /\ [][NextField]_vars

---------------------------------------------------------------------------
(* A credential that outlives the client's session: the token of a login    *)
(* payload is a string, and whoever received it can keep a copy and send    *)
(* it after the client has logged out or logged in again.                   *)

\* a copy of the token in localStorage is put aside
Keep ==
    /\ Serving
    /\ stored # << >>
    /\ kept' = stored
    /\ UNCHANGED <<seeded, comments, commentId, now, stored, req, res, prev,
                   listing, pending, succeeded, field>>

\* the header of a request made with the copy
KeptHeader == IF kept # << >> THEN << Bearer(kept[1]) >> ELSE << >>

NextSession ==
    \/ SeedPost
    \/ \E i \in DOMAIN users : Login(users[i].email, users[i].password)
    \/ Keep
    \/ Logout
    \/ \E h \in {KeptHeader, ClientHeader} : AddComment(h, posts[1].id, "Nice")
    \/ QueryMe(KeptHeader)
    \/ Tick

SpecSession == Init /\ [][NextSession]_vars

\* C11: with several addComment requests in flight, every order in which
\* their resolvers run leaves exactly one more comment per successful
\* request, and no two comments of the array share an id.
C11_InFlightAddsAllLandWithDistinctIds ==
    /\ Len(comments) = (commentId - 1) + succeeded
    /\ \A i, j \in DOMAIN comments : i # j => comments[i].id # comments[j].id

\* two requests of different users were in flight together and the one
\* that arrived last ran first
C11_Witness ==
    /\ succeeded = 2
    /\ pending = << >>
    /\ Last(comments).userId # comments[Len(comments) - 1].userId
    /\ Last(comments).userId = req.context.user[1].id
    /\ req.header # ClientHeader

\* C12: a posts query that selects the comments of every post and the author
\* of every comment calls Post.comments once per post and Comment.author
\* once per comment listed; over N posts of M comments each that is at
\* least N + N * M calls.
C12_NestedPostsQueryMakesNPlusNMCalls ==
    (req.op = "posts" /\ res.error = "")
        => LET N == Len(posts)
               listed == { i \in DOMAIN comments :
                             \E k \in DOMAIN posts : comments[i].postId = posts[k].id }
           IN  /\ listing.postComments = N
               /\ listing.commentAuthor = Cardinality(listed)
               /\ \A M \in 0 .. Len(comments) :
                      (\A k \in DOMAIN posts : PostCommentCount(posts[k], comments) >= M)
                          => listing.postComments + listing.commentAuthor >= N + N * M

\* a posts query over posts that all have the same, positive number of
\* comments
C12_Witness ==
    /\ req.op = "posts"
    /\ res.error = ""
    /\ \E M \in 1 .. Len(comments) :
          /\ \A k \in DOMAIN posts : PostCommentCount(posts[k], comments) = M
          /\ listing.postComments + listing.commentAuthor = Len(posts) + Len(posts) * M

Seed == SubSeq(comments, 1, commentId - 1)

\* the seed of a start at which every Math.random() returns 0
ReferenceSeed ==
    [j \in 1 .. (Len(posts) * SeedBase) |->
        SeedComment(posts[((j - 1) \div SeedBase) + 1], ((j - 1) % SeedBase) + 1,
                    j, 1, 1, 0)]

RankInPost(j) ==
    Cardinality({ k \in 1 .. j : Seed[k].postId = Seed[j].postId })

PublicFields == {"id", "email", "name"}
IsPublicView(user) == user # << >> => DOMAIN user[1] = PublicFields

\* C15: no user the server hands out carries a password: the user of a
\* login payload, the user of the context (which me returns), and the
\* authors Post.author and Comment.author resolve have the fields id, email
\* and name and no other.
C15_NoUserViewCarriesPassword ==
    /\ IsPublicView(res.user)
    /\ IsPublicView(req.context.user)
    /\ \A k \in DOMAIN posts : IsPublicView(PostAuthor(posts[k]))
    /\ \A i \in DOMAIN comments : IsPublicView(CommentAuthor(comments[i]))
    /\ \A k \in DOMAIN listing.posts :
          /\ IsPublicView(listing.posts[k].author)
          /\ \A i \in DOMAIN listing.posts[k].comments :
                IsPublicView(listing.posts[k].comments[i].author)

\* a client that is logged in logs in again: the payload and the context
\* both carry a user
C15_Witness ==
    /\ req.op = "login"
    /\ res.error = ""
    /\ res.user # << >>
    /\ res.user[1].email = req.email
    /\ req.context.user # << >>
    /\ \E i \in DOMAIN users :
          users[i].email = req.email /\ users[i].password = req.password

\* C16: whatever requests came before and whoever asks, anonymous or
\* authenticated, the posts query returns every row of the posts table in
\* the order of the table, each with its title and with the author the
\* users table gives for its authorId: no operation changes users or posts.
C16_PostsQueryReturnsTheSeededPosts ==
    (req.op = "posts" /\ res.error = "")
        => /\ Len(listing.posts) = Len(posts)
           /\ \A k \in DOMAIN posts :
                 /\ listing.posts[k].id = posts[k].id
                 /\ listing.posts[k].title = posts[k].title
                 /\ \E u \in DOMAIN users :
                       /\ users[u].id = posts[k].authorId
                       /\ listing.posts[k].author =
                             << [id |-> users[u].id, email |-> users[u].email,
                                 name |-> users[u].name] >>

\* an anonymous posts query after a login and a successful addComment
C16_Witness ==
    /\ req.op = "posts"
    /\ req.context.user = << >>
    /\ stored # << >>
    /\ Added = 1
    /\ Len(listing.posts) = Len(posts)

\* C17: the comments array only grows at its end: a step keeps every comment
\* at its position with its id, text, postId, userId and createdAt; once
\* the server is serving, the only step that changes the array is a
\* successful addComment, which appends the comment it returns; so the
\* comments Post.comments lists for a post are in the order they were made.
C17_CommentsAreAppendOnly ==
    [][ /\ Len(comments') >= Len(comments)
        /\ \A i \in DOMAIN comments : comments'[i] = comments[i]
        /\ (Serving /\ comments' # comments)
              => /\ req'.op = "addComment"
                 /\ res'.error = ""
                 /\ comments' = Append(comments, res'.comment[1])
        /\ \A k \in DOMAIN posts :
              LET before == PostComments(posts[k], comments)
                  after == PostComments(posts[k], comments')
              IN  /\ SubSeq(after, 1, Len(before)) = before
                  /\ \A i, j \in DOMAIN after : i < j => after[i].id < after[j].id
      ]_vars

\* a successful addComment on a post that already had a comment
C17_Witness ==
    /\ req.op = "addComment"
    /\ res.error = ""
    /\ comments = Append(prev, res.comment[1])
    /\ PostCommentCount(posts[1], prev) >= 1
    /\ Last(PostComments(posts[1], comments)) = res.comment[1]

\* C18: addComment does not look the postId up: with an authenticated
\* context, a non-empty text and a postId that no post has, it succeeds and
\* stores the comment, which then is in no post's comments and counts in no
\* post's commentCount.
C18_UnknownPostIdStoresAnOrphan ==
    (/\ req.op = "addComment"
     /\ req.context.user # << >>
     /\ req.text # ""
     /\ \A k \in DOMAIN posts : posts[k].id # req.postId)
        => /\ res.error = ""
           /\ res.comment # << >>
           /\ res.comment[1].postId = req.postId
           /\ comments = Append(prev, res.comment[1])
           /\ \A k \in DOMAIN posts :
                 /\ res.comment[1] \notin Range(PostComments(posts[k], comments))
                 /\ PostCommentCount(posts[k], comments)
                        = PostCommentCount(posts[k], prev)

\* the store holds a comment that belongs to no post
C18_Witness ==
    /\ req.op = "addComment"
    /\ req.postId = 99
    /\ res.error = ""
    /\ Last(comments).postId = 99
    /\ \A k \in DOMAIN posts : Last(comments) \notin Range(PostComments(posts[k], comments))

\* C19: the server keeps no session: a request that carries a credential a
\* login issued gets the context of the user it was issued to as long as
\* the credential has not expired, whether or not the client has logged
\* out, somebody has logged in since, or comments were added in between.
C19_IssuedCredentialOutlivesTheSession ==
    (/\ req.op \in {"me", "addComment"}
     /\ kept # << >>
     /\ req.header = << Bearer(kept[1]) >>
     /\ now < kept[1].exp)
        => /\ req.context.user # << >>
           /\ req.context.user[1].id = kept[1].userId
           /\ req.op = "me" => res.user = req.context.user

\* me with the copy of a credential, after another user has logged in and
\* added a comment and the client has logged out
C19_Witness ==
    /\ req.op = "me"
    /\ kept # << >>
    /\ req.header = << Bearer(kept[1]) >>
    /\ stored = << >>
    /\ Added = 1
    /\ Last(comments).userId # kept[1].userId
    /\ res.user # << >>
    /\ res.user[1].id = kept[1].userId

\* C20: in every reachable state the userId of every stored comment is the
\* id of a user of the users table, so Comment.author finds a user for
\* every stored comment.
C20_EveryCommentHasAnExistingUser ==
    \A i \in DOMAIN comments :
        /\ \E u \in DOMAIN users : users[u].id = comments[i].userId
        /\ CommentAuthor(comments[i]) # << >>
        /\ CommentAuthor(comments[i])[1].id = comments[i].userId

\* the store holds seeded comments and a comment that addComment has just
\* stored for the user of the context
C20_Witness ==
    /\ Serving
    /\ commentId > 1
    /\ Added = 1
    /\ req.op = "addComment"
    /\ res.error = ""
    /\ Last(comments).userId = req.context.user[1].id
    /\ CommentAuthor(Last(comments)) = req.context.user

=============================================================================
